---- MODULE Spec2Model ----
(***************************************************************************)
(* RCell: a cell holding an Arc<T>, a Weak<T> or nothing, every operation  *)
(* of which runs under a lock taken from a pool of sharded mutexes.        *)
(*                                                                         *)
(* The strong counter of every target is a variable of its own (it is the  *)
(* atomic counter inside the Arc allocation, not protected by the pool),   *)
(* updated by each clone, upgrade and drop the code performs.  Threads     *)
(* step through an operation: call, lock, critical section, drop of the    *)
(* value moved out by mem::replace, drop of the guard and return.          *)
(***************************************************************************)
EXTENDS Integers, FiniteSets, Sequences, TLC

\* ---- bounds -------------------------------------------------------------
NThreads == 2
NCells == 2
NTargets == 2
\* the strong handles of one target that callers hold at a time
MaxExt == 1
\* the distance of two neighbouring cells in memory
CELL_SIZE == 16

Threads == 1 .. NThreads
Cells == 1 .. NCells
Targets == 1 .. NTargets

\* ---- the mutex pool -----------------------------------------------------
POOL_SIZE == 97

\* The identity of a cell is its address.  The cells lie next to each other,
\* and then on shards of their own, or 97 places apart, and then all on one
\* shard.
Layouts == { [c \in Cells |-> 4096 + CELL_SIZE * c],
             [c \in Cells |-> 4096 + CELL_SIZE * POOL_SIZE * c] }

Shards == {l[c] % POOL_SIZE : l \in Layouts, c \in Cells}

\* ---- ArcState -----------------------------------------------------------
Empty == [v |-> "Empty", tg |-> 0]
NoCell == [v |-> "None", tg |-> 0]
MkArc(g) == [v |-> "Arc", tg |-> g]
MkWeak(g) == [v |-> "Weak", tg |-> g]

ArcState == {Empty} \cup {MkArc(g) : g \in Targets} \cup {MkWeak(g) : g \in Targets}

\* What an operation returns: Option<Arc<T>>, bool or usize.
None == [ok |-> FALSE, val |-> 0]
Some(g) == [ok |-> TRUE, val |-> g]
Bool(b) == [ok |-> b, val |-> 0]
Count(n) == [ok |-> TRUE, val |-> n]

NoOp == [name |-> "none", c |-> 0, arg |-> Empty, dst |-> 0]

VARIABLES
    cell,       \* cell[c]: the ArcState of cell c, NoCell while c does not exist
    strong,     \* strong[g]: the strong counter of target g
    alloc,      \* the targets allocated so far (Arc::new was called)
    ext,        \* ext[g]: strong handles of g held by callers, outside cells
    addr,       \* addr[c]: the address of cell c
    pool,       \* pool[s]: the thread holding the mutex of shard s, 0 if free
    pc,         \* pc[t]: where thread t is in its operation
    op,         \* op[t]: the operation thread t runs
    res,        \* res[t]: the value the operation is about to return
    chk,        \* chk[t]: release()'s liveness check, "none" | "live" | "dead"
    old,        \* old[t]: the ArcState moved out by mem::replace
    acell,      \* acell[c]: cell c as the operations linearized so far leave it
    lin         \* lin[t]: the result of t's operation run atomically where it linearizes

vars == <<cell, strong, alloc, ext, addr, pool, pc, op, res, chk, old, acell, lin>>

\* ---- the reference counting primitive (std::sync::Arc / Weak) -----------
\* Arc::clone and a successful Weak::upgrade add one strong handle.
Inc(s, g) == [s EXCEPT ![g] = @ + 1]

\* Dropping an Arc removes one strong handle; at zero the target is destroyed.
Dec(s, g) == [s EXCEPT ![g] = @ - 1]

\* an upgrade that does not look at the counter
upgrade_any(s, g) == TRUE

\* Weak::upgrade succeeds iff the counter is above zero at that instant.
CanUpgrade(s, g) == s[g] > 0

\* a drop that forgets the handle instead of giving it up
DropState_forget(s, st) == s

\* Dropping an ArcState: only the Arc variant owns a strong handle.
DropState(s, st) == IF st.v = "Arc" THEN Dec(s, st.tg) ELSE s

\* a refcount() that counts through an Arc only
refcount_arc(st) == IF st.v = "Arc" THEN strong[st.tg] ELSE 0

\* ArcState::refcount
refcount_of(st) == IF st.v \in {"Arc", "Weak"} THEN strong[st.tg] ELSE 0

\* a clone of an Arc that does not count
clone_nocount(s, st) == s

\* Clone for ArcState: the strong counter after cloning st.
clone_state(s, st) == IF st.v = "Arc" THEN Inc(s, st.tg) ELSE s

Init ==
    /\ cell = [c \in Cells |-> NoCell]
    /\ strong = [g \in Targets |-> 0]
    /\ alloc = {}
    /\ ext = [g \in Targets |-> 0]
    /\ addr \in Layouts
    /\ pool = [s \in Shards |-> 0]
    /\ pc = [t \in Threads |-> "idle"]
    /\ op = [t \in Threads |-> NoOp]
    /\ res = [t \in Threads |-> None]
    /\ chk = [t \in Threads |-> "none"]
    /\ old = [t \in Threads |-> Empty]
    /\ acell = [c \in Cells |-> NoCell]
    /\ lin = [t \in Threads |-> None]

\* ShardedMutex: the shard of a cell is its address modulo the pool size
ShardOf(c) == addr[c] % POOL_SIZE

thr == <<addr, pool, pc, op, res, chk, old, lin>>

\* A cell slot is in use by a thread while an operation on it is running,
\* or while a clone() is about to be constructed into it.
Busy(c) == \E t \in Threads : pc[t] # "idle" /\ (op[t].c = c \/ op[t].dst = c)

Free(c) == cell[c] = NoCell /\ ~Busy(c)

\* ---- callers' own handles ----------------------------------------------
\* Arc::new(v) by a caller
ArcNew(g) ==
    /\ g \notin alloc
    /\ alloc' = alloc \cup {g}
    /\ strong' = [strong EXCEPT ![g] = 1]
    /\ ext' = [ext EXCEPT ![g] = 1]
    /\ UNCHANGED <<cell, acell, thr>>

\* A caller can hold a Weak<T> of every target allocated so far: of its own
\* Arc by Arc::downgrade, of a cell's by downgrading what request() returned.
extWeak(g) == g \in alloc

\* A caller gains a strong handle: Arc::clone of one it holds, or
\* Weak::upgrade of a weak handle, which succeeds while the target is alive.
ExtClone(g) ==
    /\ extWeak(g)
    /\ ext[g] < MaxExt
    /\ CanUpgrade(strong, g)
    /\ ext' = [ext EXCEPT ![g] = @ + 1]
    /\ strong' = Inc(strong, g)
    /\ UNCHANGED <<cell, acell, alloc, thr>>

ExtDrop(g) ==
    /\ ext[g] > 0
    /\ ext' = [ext EXCEPT ![g] = @ - 1]
    /\ strong' = Dec(strong, g)
    /\ UNCHANGED <<cell, acell, alloc, thr>>

\* ---- constructors and drop of a cell ------------------------------------
\* RCell::new(value)
new(c, g) ==
    /\ Free(c)
    /\ g \notin alloc
    /\ alloc' = alloc \cup {g}
    /\ strong' = [strong EXCEPT ![g] = 1]
    /\ cell' = [cell EXCEPT ![c] = MkArc(g)]
    /\ acell' = [acell EXCEPT ![c] = MkArc(g)]
    /\ UNCHANGED <<ext, thr>>

\* From<Arc<T>>: the caller's handle moves into the cell
from_arc(c, g) ==
    /\ Free(c)
    /\ ext[g] > 0
    /\ ext' = [ext EXCEPT ![g] = @ - 1]
    /\ cell' = [cell EXCEPT ![c] = MkArc(g)]
    /\ acell' = [acell EXCEPT ![c] = MkArc(g)]
    /\ UNCHANGED <<strong, alloc, thr>>

\* From<Weak<T>>
from_weak(c, g) ==
    /\ Free(c)
    /\ extWeak(g)
    /\ cell' = [cell EXCEPT ![c] = MkWeak(g)]
    /\ acell' = [acell EXCEPT ![c] = MkWeak(g)]
    /\ UNCHANGED <<strong, alloc, ext, thr>>

\* Default
default(c) ==
    /\ Free(c)
    /\ cell' = [cell EXCEPT ![c] = Empty]
    /\ acell' = [acell EXCEPT ![c] = Empty]
    /\ UNCHANGED <<strong, alloc, ext, thr>>

\* The owning scope of the cell ends: its ArcState is dropped.
drop_cell(c) ==
    /\ cell[c] # NoCell
    /\ ~Busy(c)
    /\ strong' = DropState(strong, cell[c])
    /\ cell' = [cell EXCEPT ![c] = NoCell]
    /\ acell' = [acell EXCEPT ![c] = NoCell]
    /\ UNCHANGED <<alloc, ext, thr>>

\* lock() that does not wait for the mutex
lock_nowait(p, c) == TRUE

\* ---- what the operations decide -----------------------------------------
\* lock(): the mutex of the cell's shard can be taken
lock_free(p, c) == p[ShardOf(c)] = 0

\* a guard that keeps the mutex when it goes out of scope
guard_leak(p, c) == p

\* the guard goes out of scope
guard_drop(p, c) == [p EXCEPT ![ShardOf(c)] = 0]

\* retained() that takes a Weak for retained too
is_retained_weak(st) == st.v \in {"Arc", "Weak"}

\* retained(): matches!(state, ArcState::Arc(_))
is_retained(st) == st.v = "Arc"

\* retain() that returns the upgraded Arc and leaves the cell as it was
upgraded_nocache(st, g) == st

\* retain(): the upgraded Arc is cached with mem::replace
upgraded(st, g) == MkArc(g)

\* retain() that caches the Arc it returns, without a clone of its own
cache_noclone(s, g) == s

\* retain(): it is arc.clone() that is cached, arc itself is returned
cache_clone(s, g) == Inc(s, g)

\* release() that takes a weak handle from an Arc only
has_weak_arc(st) == st.v = "Arc"

\* release(): Arc::downgrade or Weak::clone gives a weak handle, Empty gives none
has_weak(st) == st.v \in {"Arc", "Weak"}

\* release() that asks for a holder besides one
is_live_other(n) == n > 1

\* release(): weak.strong_count() > 0
is_live(n) == n > 0

\* release() that stores back what the cell held
released_keep(st, live) == IF live THEN st ELSE Empty

\* release(): mem::replace by Weak(weak) or by Empty
released(st, live) == IF live THEN MkWeak(st.tg) ELSE Empty

\* remove() that only gives up an Arc
removed_arc(st) == IF st.v = "Weak" THEN st ELSE Empty

\* remove()
removed(st) == Empty

\* request() that takes every Weak for upgradable
requested_any(st, s) == st.v \in {"Arc", "Weak"}

\* request(): an Arc is returned iff the cell is Arc, or Weak and upgradable
requested(st, s) == st.v = "Arc" \/ (st.v = "Weak" /\ CanUpgrade(s, st.tg))

\* replace() that only fills a cell that holds nothing
replaced_empty(st, a) == IF st.v = "Empty" THEN a ELSE st

\* replace()
replaced(st, a) == a

\* An operation run in one piece on ArcState st with the strong counters s:
\* the ArcState it leaves and the value it returns.
Atomic(o, a, st, s) ==
    CASE o = "retained" -> [cell |-> st, res |-> Bool(st.v = "Arc")]
      [] o = "refcount" ->
            [cell |-> st,
             res |-> Count(IF st.v \in {"Arc", "Weak"} THEN s[st.tg] ELSE 0)]
      [] o = "retain" ->
            IF st.v = "Arc" THEN [cell |-> st, res |-> Some(st.tg)]
            ELSE IF st.v = "Weak" /\ s[st.tg] > 0
                 THEN [cell |-> MkArc(st.tg), res |-> Some(st.tg)]
                 ELSE [cell |-> st, res |-> None]
      [] o = "release" ->
            IF st.v = "Arc" \/ (st.v = "Weak" /\ s[st.tg] > 0)
            THEN [cell |-> MkWeak(st.tg), res |-> None]
            ELSE [cell |-> Empty, res |-> None]
      [] o = "remove" -> [cell |-> Empty, res |-> None]
      [] o = "request" ->
            IF st.v = "Arc" \/ (st.v = "Weak" /\ s[st.tg] > 0)
            THEN [cell |-> st, res |-> Some(st.tg)]
            ELSE [cell |-> st, res |-> None]
      [] o = "replace" -> [cell |-> a, res |-> None]
      [] o = "clone" -> [cell |-> st, res |-> None]

\* ---- operations of a cell, run by a thread ------------------------------
OpNames == {"retained", "refcount", "retain", "release", "remove", "request",
            "replace", "clone"}

\* Thread t calls operation o on cell c.  replace() takes its handle from
\* the caller; clone() is given the place its result is constructed in.
call(t, o, c, a, d) ==
    /\ pc[t] = "idle"
    /\ cell[c] # NoCell
    /\ IF o = "replace"
       THEN /\ a.v \in {"Arc", "Weak"}
            /\ a.v = "Arc" => ext[a.tg] > 0
            /\ a.v = "Weak" => extWeak(a.tg)
       ELSE a = Empty
    /\ IF o = "clone" THEN d \in Cells /\ d # c /\ Free(d) ELSE d = 0
    /\ ext' = IF a.v = "Arc" THEN [ext EXCEPT ![a.tg] = @ - 1] ELSE ext
    /\ op' = [op EXCEPT ![t] = [name |-> o, c |-> c, arg |-> a, dst |-> d]]
    /\ pc' = [pc EXCEPT ![t] = "lock"]
    /\ UNCHANGED <<cell, acell, strong, alloc, addr, pool, res, chk, old, lin>>

\* RCell::lock: blocks until the mutex of the cell's shard is free
lock(t) ==
    /\ pc[t] = "lock"
    /\ lock_free(pool, op[t].c)
    /\ pool' = [pool EXCEPT ![ShardOf(op[t].c)] = t]
    /\ pc' = [pc EXCEPT ![t] = "body"]
    /\ UNCHANGED <<cell, acell, strong, alloc, ext, addr, op, res, chk, old, lin>>

InBody(t, o) == pc[t] = "body" /\ op[t].name = o

\* The operation of t takes effect: what it does when run in one piece here.
Linearize(t) ==
    LET a == Atomic(op[t].name, op[t].arg, acell[op[t].c], strong)
    IN  /\ lin' = [lin EXCEPT ![t] = a.res]
        /\ acell' = IF op[t].name = "clone"
                    THEN [acell EXCEPT ![op[t].dst] = a.cell]
                    ELSE [acell EXCEPT ![op[t].c] = a.cell]

\* RCell::retained
retained(t) ==
    /\ InBody(t, "retained")
    /\ res' = [res EXCEPT ![t] = Bool(is_retained(cell[op[t].c]))]
    /\ pc' = [pc EXCEPT ![t] = "unlock"]
    /\ Linearize(t)
    /\ UNCHANGED <<cell, strong, alloc, ext, addr, pool, op, chk, old>>

\* RCell::refcount
refcount(t) ==
    /\ InBody(t, "refcount")
    /\ res' = [res EXCEPT ![t] = Count(refcount_of(cell[op[t].c]))]
    /\ pc' = [pc EXCEPT ![t] = "unlock"]
    /\ Linearize(t)
    /\ UNCHANGED <<cell, strong, alloc, ext, addr, pool, op, chk, old>>

\* retain() that returns None without dropping its guard
retain_early(t) ==
    /\ InBody(t, "retain")
    /\ LET st == cell[op[t].c]
       IN  CASE st.v = "Arc" ->
                  /\ strong' = Inc(strong, st.tg)
                  /\ res' = [res EXCEPT ![t] = Some(st.tg)]
                  /\ pc' = [pc EXCEPT ![t] = "unlock"]
                  /\ UNCHANGED op
             [] st.v = "Weak" /\ CanUpgrade(strong, st.tg) ->
                  /\ strong' = Inc(strong, st.tg)
                  /\ res' = [res EXCEPT ![t] = Some(st.tg)]
                  /\ pc' = [pc EXCEPT ![t] = "cache"]
                  /\ UNCHANGED op
             [] OTHER ->
                  /\ res' = [res EXCEPT ![t] = None]
                  /\ pc' = [pc EXCEPT ![t] = "idle"]
                  /\ op' = [op EXCEPT ![t] = NoOp]
                  /\ UNCHANGED strong
    /\ Linearize(t)
    /\ UNCHANGED <<cell, alloc, ext, addr, pool, chk, old>>

\* RCell::retain: the match, with the clone or the upgrade
retain(t) ==
    /\ InBody(t, "retain")
    /\ LET st == cell[op[t].c]
       IN  CASE st.v = "Arc" ->
                  /\ strong' = Inc(strong, st.tg)
                  /\ res' = [res EXCEPT ![t] = Some(st.tg)]
                  /\ pc' = [pc EXCEPT ![t] = "unlock"]
             [] st.v = "Weak" /\ CanUpgrade(strong, st.tg) ->
                  /\ strong' = Inc(strong, st.tg)
                  /\ res' = [res EXCEPT ![t] = Some(st.tg)]
                  /\ pc' = [pc EXCEPT ![t] = "cache"]
             [] OTHER ->
                  /\ res' = [res EXCEPT ![t] = None]
                  /\ pc' = [pc EXCEPT ![t] = "unlock"]
                  /\ UNCHANGED strong
    /\ Linearize(t)
    /\ UNCHANGED <<cell, alloc, ext, addr, pool, op, chk, old>>

\* RCell::retain: mem::replace(cell, Arc(arc.clone())) after the upgrade
retain_cache(t) ==
    /\ pc[t] = "cache"
    /\ strong' = cache_clone(strong, res[t].val)
    /\ cell' = [cell EXCEPT ![op[t].c] = upgraded(cell[op[t].c], res[t].val)]
    /\ old' = [old EXCEPT ![t] = cell[op[t].c]]
    /\ pc' = [pc EXCEPT ![t] = "drop"]
    /\ UNCHANGED <<acell, alloc, ext, addr, pool, op, res, chk, lin>>

\* release() that checks for the strong handles besides the cell's own
release_besides(t) ==
    /\ InBody(t, "release")
    /\ LET st == cell[op[t].c]
       IN  IF has_weak(st)
           THEN /\ chk' = [chk EXCEPT ![t] =
                              IF is_live(strong[st.tg]
                                           - (IF st.v = "Arc" THEN 1 ELSE 0))
                              THEN "live" ELSE "dead"]
                /\ pc' = [pc EXCEPT ![t] = "store"]
           ELSE /\ pc' = [pc EXCEPT ![t] = "unlock"]
                /\ UNCHANGED chk
    /\ Linearize(t)
    /\ UNCHANGED <<cell, strong, alloc, ext, addr, pool, op, res, old>>

\* RCell::release: the weak handle and its strong_count()
release(t) ==
    /\ InBody(t, "release")
    /\ LET st == cell[op[t].c]
       IN  IF has_weak(st)
           THEN /\ chk' = [chk EXCEPT ![t] =
                              IF is_live(strong[st.tg]) THEN "live" ELSE "dead"]
                /\ pc' = [pc EXCEPT ![t] = "store"]
           ELSE /\ pc' = [pc EXCEPT ![t] = "unlock"]
                /\ UNCHANGED chk
    /\ Linearize(t)
    /\ UNCHANGED <<cell, strong, alloc, ext, addr, pool, op, res, old>>

\* RCell::release: mem::replace by Weak(weak) or by Empty
release_store(t) ==
    /\ pc[t] = "store"
    /\ cell' = [cell EXCEPT ![op[t].c] = released(cell[op[t].c], chk[t] = "live")]
    /\ old' = [old EXCEPT ![t] = cell[op[t].c]]
    /\ chk' = [chk EXCEPT ![t] = "none"]
    /\ pc' = [pc EXCEPT ![t] = "drop"]
    /\ UNCHANGED <<acell, strong, alloc, ext, addr, pool, op, res, lin>>

\* remove() that empties every cell of the shard it has locked
remove_shard(t) ==
    /\ InBody(t, "remove")
    /\ cell' = [c \in Cells |->
                   IF cell[c] # NoCell /\ ShardOf(c) = ShardOf(op[t].c)
                   THEN Empty ELSE cell[c]]
    /\ old' = [old EXCEPT ![t] = cell[op[t].c]]
    /\ pc' = [pc EXCEPT ![t] = "drop"]
    /\ Linearize(t)
    /\ UNCHANGED <<strong, alloc, ext, addr, pool, op, res, chk>>

\* RCell::remove
remove(t) ==
    /\ InBody(t, "remove")
    /\ cell' = [cell EXCEPT ![op[t].c] = removed(cell[op[t].c])]
    /\ old' = [old EXCEPT ![t] = cell[op[t].c]]
    /\ pc' = [pc EXCEPT ![t] = "drop"]
    /\ Linearize(t)
    /\ UNCHANGED <<strong, alloc, ext, addr, pool, op, res, chk>>

\* RCell::request
request(t) ==
    /\ InBody(t, "request")
    /\ LET st == cell[op[t].c]
       IN  IF requested(st, strong)
           THEN /\ strong' = Inc(strong, st.tg)
                /\ res' = [res EXCEPT ![t] = Some(st.tg)]
           ELSE /\ res' = [res EXCEPT ![t] = None]
                /\ UNCHANGED strong
    /\ pc' = [pc EXCEPT ![t] = "unlock"]
    /\ Linearize(t)
    /\ UNCHANGED <<cell, alloc, ext, addr, pool, op, chk, old>>

\* Replace<Arc<T>> and Replace<Weak<T>>
replace(t) ==
    /\ InBody(t, "replace")
    /\ cell' = [cell EXCEPT ![op[t].c] = replaced(cell[op[t].c], op[t].arg)]
    /\ old' = [old EXCEPT ![t] = cell[op[t].c]]
    /\ pc' = [pc EXCEPT ![t] = "drop"]
    /\ Linearize(t)
    /\ UNCHANGED <<strong, alloc, ext, addr, pool, op, res, chk>>

\* Clone for RCell: the cloned ArcState is put into a new cell
clone(t) ==
    /\ InBody(t, "clone")
    /\ strong' = clone_state(strong, cell[op[t].c])
    /\ cell' = [cell EXCEPT ![op[t].dst] = cell[op[t].c]]
    /\ pc' = [pc EXCEPT ![t] = "unlock"]
    /\ Linearize(t)
    /\ UNCHANGED <<alloc, ext, addr, pool, op, res, chk, old>>

\* a drop of the moved out value that comes after the drop of the guard
discard_unlocked(t) ==
    /\ pc[t] = "drop"
    /\ pool' = guard_drop(pool, op[t].c)
    /\ strong' = DropState(strong, old[t])
    /\ pc' = [pc EXCEPT ![t] = "unlock"]
    /\ UNCHANGED <<cell, acell, alloc, ext, addr, op, res, chk, old, lin>>

\* The value mem::replace returned is dropped at the end of its statement,
\* before the guard.
discard(t) ==
    /\ pc[t] = "drop"
    /\ strong' = DropState(strong, old[t])
    /\ pc' = [pc EXCEPT ![t] = "unlock"]
    /\ UNCHANGED <<cell, acell, alloc, ext, addr, pool, op, res, chk, old, lin>>

\* The guard is dropped and the operation returns.  A returned Arc is the
\* caller's: kept, or dropped at once.
unlock(t, keep) ==
    /\ pc[t] = "unlock"
    /\ pool' = guard_drop(pool, op[t].c)
    /\ IF op[t].name \in {"retain", "request"} /\ res[t].ok
       THEN IF keep
            THEN /\ ext[res[t].val] < MaxExt
                 /\ ext' = [ext EXCEPT ![res[t].val] = @ + 1]
                 /\ UNCHANGED strong
            ELSE /\ strong' = Dec(strong, res[t].val)
                 /\ UNCHANGED ext
       ELSE /\ keep
            /\ UNCHANGED <<strong, ext>>
    /\ pc' = [pc EXCEPT ![t] = "idle"]
    /\ op' = [op EXCEPT ![t] = NoOp]
    /\ res' = [res EXCEPT ![t] = None]
    /\ old' = [old EXCEPT ![t] = Empty]
    /\ lin' = [lin EXCEPT ![t] = None]
    /\ UNCHANGED <<cell, acell, alloc, addr, chk>>

\* The handles a caller can pass to replace(), of the targets in G
Args(G) == {Empty} \cup {MkArc(g) : g \in G} \cup {MkWeak(g) : g \in G}

\* The steps of the callers' handles, of the cells and of the threads in T,
\* on the targets in G.
Step(T, G) ==
    \/ \E g \in G : ArcNew(g)
    \/ \E g \in G : ExtClone(g)
    \/ \E g \in G : ExtDrop(g)
    \/ \E c \in Cells, g \in G : new(c, g)
    \/ \E c \in Cells, g \in G : from_arc(c, g)
    \/ \E c \in Cells, g \in G : from_weak(c, g)
    \/ \E c \in Cells : default(c)
    \/ \E c \in Cells : drop_cell(c)
    \/ \E t \in T, o \in OpNames, c \in Cells, a \in Args(G), d \in Cells \cup {0} :
          call(t, o, c, a, d)
    \/ \E t \in T : lock(t)
    \/ \E t \in T : retained(t)
    \/ \E t \in T : refcount(t)
    \/ \E t \in T : retain(t)
    \/ \E t \in T : retain_cache(t)
    \/ \E t \in T : release(t)
    \/ \E t \in T : release_store(t)
    \/ \E t \in T : remove(t)
    \/ \E t \in T : request(t)
    \/ \E t \in T : replace(t)
    \/ \E t \in T : clone(t)
    \/ \E t \in T : discard(t)
    \/ \E t \in T, keep \in BOOLEAN : unlock(t, keep)

\* Any number of threads, on all targets
Next == Step(Threads, Targets)

Spec == Init /\ [][Next]_vars

\* One thread, the callers' handles and the other cells changing under it
NextSeq == Step({1}, Targets)

SpecSeq == Init /\ [][NextSeq]_vars

\* Any number of threads, all cells and handles on one target
NextPar == Step(Threads, {1})

SpecPar == Init /\ [][NextPar]_vars

TypeOK ==
    /\ cell \in [Cells -> ArcState \cup {NoCell}]
    /\ strong \in [Targets -> 0 .. (NCells + MaxExt + 2 * NThreads)]
    /\ ext \in [Targets -> 0 .. MaxExt]
    /\ pool \in [Shards -> Threads \cup {0}]

\* ---- properties ----------------------------------------------------------
\* Thread t takes the step of operation o that starts where pc[t] = from.
Took(t, from, o) == pc[t] = from /\ op[t].name = o /\ pc'[t] # from

\* st gives no Arc: it is Empty, or Weak on a destroyed target.
DeadAt(st, s) == st.v = "Empty" \/ (st.v = "Weak" /\ s[st.tg] = 0)

\* C1: when release() drops the cell's handle and that was the only strong
\* handle of the target, the target is destroyed and the cell no longer
\* gives an Arc; a cell that gives none returns None from retain() and
\* request() and stays so until replace() puts a new handle into it.
Thm_C1 ==
    [][/\ \A t \in Threads :
            /\ (Took(t, "drop", "release") /\ old[t].v = "Arc"
                    /\ strong[old[t].tg] = 1)
                 => /\ strong'[old[t].tg] = 0
                    /\ cell'[op[t].c].v # "Arc"
                    /\ DeadAt(cell'[op[t].c], strong')
            /\ ((Took(t, "body", "retain") \/ Took(t, "body", "request"))
                    /\ DeadAt(cell[op[t].c], strong))
                 => /\ res'[t] = None
                    /\ cell'[op[t].c] = cell[op[t].c]
       /\ \A c \in Cells :
            (DeadAt(cell[c], strong) /\ cell'[c] # NoCell
                    /\ ~DeadAt(cell'[c], strong'))
                 => \E t \in Threads : InBody(t, "replace") /\ op[t].c = c
      ]_vars

\* release() has dropped the only strong handle, the one the cell held.
Wit_C1 ==
    \E t \in Threads :
        /\ pc[t] = "unlock" /\ op[t].name = "release"
        /\ old[t].v = "Arc" /\ strong[old[t].tg] = 0
        /\ cell[op[t].c] = MkWeak(old[t].tg)

\* C2: when release() gives up the last strong handle of the target, the
\* one the cell held, the cell is Empty afterwards.
Cex_C2 ==
    [][\A t \in Threads :
          (Took(t, "drop", "release") /\ old[t].v = "Arc"
                  /\ strong[old[t].tg] = 1)
               => cell'[op[t].c] = Empty
      ]_vars

\* C3: retain() on Arc returns Some and leaves the cell; on Weak with a
\* live target it returns Some of that target and the cell becomes Arc on
\* it; on Weak with a dead target and on Empty it returns None and leaves
\* the cell.
Thm_C3 ==
    [][\A t \in Threads :
          /\ Took(t, "body", "retain") =>
                LET st == cell[op[t].c]
                IN  /\ st.v = "Arc" =>
                          /\ res'[t] = Some(st.tg)
                          /\ cell'[op[t].c] = st
                          /\ pc'[t] = "unlock"
                    /\ (st.v = "Weak" /\ strong[st.tg] > 0) =>
                          /\ res'[t] = Some(st.tg)
                          /\ pc'[t] = "cache"
                    /\ (st.v = "Weak" /\ strong[st.tg] = 0) =>
                          /\ res'[t] = None
                          /\ cell'[op[t].c] = st
                          /\ pc'[t] = "unlock"
                    /\ st.v = "Empty" =>
                          /\ res'[t] = None
                          /\ cell'[op[t].c] = st
                          /\ pc'[t] = "unlock"
          /\ Took(t, "cache", "retain") =>
                /\ cell[op[t].c] = MkWeak(res[t].val)
                /\ cell'[op[t].c] = MkArc(res[t].val)
                /\ strong'[res[t].val] > 0
                /\ res'[t] = res[t]
          /\ (op[t].name = "retain" /\ pc[t] \in {"drop", "unlock"}) =>
                cell'[op[t].c] = cell[op[t].c]
      ]_vars

\* retain() has upgraded a Weak cell and cached the Arc.
Wit_C3 ==
    \E t \in Threads :
        /\ pc[t] = "unlock" /\ op[t].name = "retain"
        /\ old[t].v = "Weak"
        /\ cell[op[t].c] = MkArc(old[t].tg)
        /\ res[t] = Some(old[t].tg)

\* C4: request() leaves the cell as it is, and returns Some of the cell's
\* target iff the cell is Arc, or Weak with a strong count above zero at
\* the upgrade.
Thm_C4 ==
    [][\A t \in Threads :
          op[t].name = "request" =>
             /\ (pc[t] \in {"body", "unlock"} \/ pc'[t] # pc[t]) =>
                   cell'[op[t].c] = cell[op[t].c]
             /\ Took(t, "body", "request") =>
                   LET st == cell[op[t].c]
                   IN  res'[t] = IF st.v = "Arc"
                                     \/ (st.v = "Weak" /\ strong[st.tg] > 0)
                                 THEN Some(st.tg) ELSE None
      ]_vars

\* request() on a Weak cell has returned None, the last holder being gone.
Wit_C4 ==
    \E t \in Threads :
        /\ pc[t] = "unlock" /\ op[t].name = "request"
        /\ cell[op[t].c].v = "Weak"
        /\ strong[cell[op[t].c].tg] = 0
        /\ res[t] = None

\* C5: the target of a cell that is Arc is alive.
Thm_C5 == \A c \in Cells : cell[c].v = "Arc" => strong[cell[c].tg] >= 1

\* retain() has made a cell Arc whose target no caller holds: the cell's
\* handle and the one about to be returned are the only ones.
Wit_C5 ==
    \E t \in Threads :
        /\ pc[t] = "unlock" /\ op[t].name = "retain"
        /\ old[t].v = "Weak"
        /\ cell[op[t].c].v = "Arc"
        /\ ext[old[t].tg] = 0
        /\ strong[old[t].tg] = 2

\* The places of a thread inside its critical section
Crit == {"body", "store", "cache", "drop", "unlock"}

\* The shard locks thread t holds
Held(t) == {s \in Shards : pool[s] = t}

\* A step of thread t inside its critical section
Run(t) ==
    \/ retained(t) \/ refcount(t) \/ retain(t) \/ retain_cache(t)
    \/ release(t) \/ release_store(t) \/ remove(t) \/ request(t)
    \/ replace(t) \/ clone(t) \/ discard(t)
    \/ \E keep \in BOOLEAN : unlock(t, keep)

\* C6: a thread holds at most one shard lock, the one of the cell it
\* operates on, and none while it calls or waits; a thread that waits for
\* a lock can take it, or the lock is held by a thread that is inside its
\* critical section, waits for nothing and can take its next step.
Thm_C6 ==
    \A t \in Threads :
        /\ Cardinality(Held(t)) <= 1
        /\ pc[t] \in {"idle", "lock"} => Held(t) = {}
        /\ pc[t] \in Crit => Held(t) = {ShardOf(op[t].c)}
        /\ pc[t] \in Crit => ENABLED Run(t)
        /\ pc[t] = "lock" =>
              \/ ENABLED lock(t)
              \/ \E u \in Threads \ {t} :
                    /\ pool[ShardOf(op[t].c)] = u
                    /\ pc[u] \in Crit

\* A thread waits for the lock of its cell while another thread is in the
\* critical section of a different cell on the same shard.
Wit_C6 ==
    \E t, u \in Threads :
        /\ pc[t] = "lock" /\ pc[u] \in Crit
        /\ op[t].c # op[u].c
        /\ ShardOf(op[t].c) = ShardOf(op[u].c)

\* C7: the operations on a cell take effect one at a time, each at one
\* instant between its call and its return: every cell is what the
\* operations run in one piece, in the order of these instants, leave, every
\* value returned is the one returned in that run, no two threads are
\* inside the critical section of one cell, and the cell an operation works
\* on is a whole Arc, Weak or Empty.
Thm_C7 ==
    /\ \A c \in Cells :
          (~\E t \in Threads : op[t].c = c /\ pc[t] \in {"store", "cache"})
             => cell[c] = acell[c]
    /\ \A t \in Threads :
          pc[t] \in {"drop", "unlock"} => res[t] = lin[t]
    /\ \A t \in Threads :
          pc[t] \in Crit => cell[op[t].c] \in ArcState
    /\ \A t, u \in Threads :
          (t # u /\ pc[t] \in Crit /\ pc[u] \in Crit) => op[t].c # op[u].c

\* A remove() waits while a release() of the same cell is between its
\* check and its store.
Wit_C7 ==
    \E t, u \in Threads :
        /\ t # u /\ op[t].c = op[u].c
        /\ pc[t] = "store" /\ op[t].name = "release"
        /\ pc[u] = "lock" /\ op[u].name = "remove"

\* C8: once the strong count of a target is zero it stays zero, no cell is
\* or becomes Arc on it and no retain() or request() returns Some of it; an
\* upgrade that returns Some leaves the target alive.
Thm_C8 ==
    [][/\ \A g \in Targets :
            (g \in alloc /\ strong[g] = 0) =>
               /\ strong'[g] = 0
               /\ \A c \in Cells : cell[c] # MkArc(g) /\ cell'[c] # MkArc(g)
               /\ \A t \in Threads :
                     ~(op'[t].name \in {"retain", "request"} /\ res'[t] = Some(g))
       /\ \A t \in Threads :
            ((Took(t, "body", "retain") \/ Took(t, "body", "request"))
                    /\ res'[t].ok)
                 => strong'[res'[t].val] > 0
      ]_vars

\* A retain() of a Weak cell has returned None after another thread has
\* dropped the last strong handle, the one of another cell.
Wit_C8 ==
    \E t, u \in Threads :
        /\ t # u
        /\ pc[t] = "unlock" /\ op[t].name = "retain" /\ res[t] = None
        /\ cell[op[t].c].v = "Weak"
        /\ pc[u] = "unlock" /\ op[u].name \in {"release", "remove"}
        /\ old[u] = MkArc(cell[op[t].c].tg)
        /\ strong[cell[op[t].c].tg] = 0

\* The strong handles of the target of old[t] besides the one release()
\* is about to drop
Others(t) ==
    strong[old[t].tg] - (IF pc[t] = "drop" /\ old[t].v = "Arc" THEN 1 ELSE 0)

\* C9: release() of a cell whose target has a strong holder outside the
\* cell leaves the cell Weak on that target; it changes the strong count
\* by the cell's own handle only, one for an Arc and none for a Weak; and
\* request() of a Weak cell returns Some while the target is alive.
Thm_C9 ==
    [][\A t \in Threads :
          /\ (op[t].name = "release" /\ pc[t] \in {"drop", "unlock"}
                  /\ old[t].v \in {"Arc", "Weak"} /\ Others(t) > 0)
               => cell[op[t].c] = MkWeak(old[t].tg)
          /\ (Took(t, "body", "release") \/ Took(t, "store", "release")
                  \/ Took(t, "unlock", "release"))
               => strong' = strong
          /\ Took(t, "drop", "release")
               => strong' = IF old[t].v = "Arc"
                            THEN [strong EXCEPT ![old[t].tg] = @ - 1]
                            ELSE strong
          /\ (Took(t, "body", "request") /\ cell[op[t].c].v = "Weak"
                  /\ strong[cell[op[t].c].tg] > 0)
               => res'[t] = Some(cell[op[t].c].tg)
      ]_vars

\* release() of an Arc cell has left it Weak, a caller holding the target.
Wit_C9 ==
    \E t \in Threads :
        /\ pc[t] = "unlock" /\ op[t].name = "release"
        /\ old[t].v = "Arc"
        /\ cell[op[t].c] = MkWeak(old[t].tg)
        /\ ext[old[t].tg] = 1 /\ strong[old[t].tg] = 1

\* C10: remove() leaves the cell Empty whatever it held, and Empty it
\* stays until remove() returns; the handle the cell held is dropped, which
\* destroys the target if it was the last; on an Empty cell retained() is
\* false and request() and retain() return None.
Thm_C10 ==
    [][\A t \in Threads :
          /\ Took(t, "body", "remove")
               => cell'[op[t].c] = Empty /\ old'[t] = cell[op[t].c]
          /\ (op[t].name = "remove" /\ pc[t] \in {"drop", "unlock"})
               => cell[op[t].c] = Empty
          /\ Took(t, "drop", "remove")
               => strong' = IF old[t].v = "Arc"
                            THEN [strong EXCEPT ![old[t].tg] = @ - 1]
                            ELSE strong
          /\ (pc[t] = "body" /\ pc'[t] # "body" /\ cell[op[t].c] = Empty
                  /\ op[t].name \in {"retained", "request", "retain"})
               => /\ res'[t] = None
                  /\ cell'[op[t].c] = Empty
      ]_vars

\* remove() has emptied a cell that held the last strong handle.
Wit_C10 ==
    \E t \in Threads :
        /\ pc[t] = "unlock" /\ op[t].name = "remove"
        /\ old[t].v = "Arc" /\ strong[old[t].tg] = 0
        /\ cell[op[t].c] = Empty

\* C11: replace() overwrites the cell by the supplied handle whatever it
\* held: the cell is Arc on the target of a supplied Arc and Weak on the
\* target of a supplied Weak until replace() returns; what the cell held is
\* dropped, one strong handle less for the old target of an Arc; and of
\* such a cell retained() is true iff it is Arc and request() returns Some
\* of the target iff it is Arc, or Weak on a live target.
Thm_C11 ==
    [][\A t \in Threads :
          /\ Took(t, "body", "replace")
               => /\ cell'[op[t].c] = op[t].arg
                  /\ old'[t] = cell[op[t].c]
                  /\ strong' = strong
          /\ (op[t].name = "replace" /\ pc[t] \in {"drop", "unlock"})
               => /\ cell[op[t].c] = op[t].arg
                  /\ op[t].arg.v = "Arc" => strong[op[t].arg.tg] >= 1
          /\ Took(t, "drop", "replace")
               => strong' = IF old[t].v = "Arc"
                            THEN [strong EXCEPT ![old[t].tg] = @ - 1]
                            ELSE strong
          /\ Took(t, "body", "retained")
               => res'[t] = Bool(cell[op[t].c].v = "Arc")
          /\ Took(t, "body", "request")
               => LET st == cell[op[t].c]
                  IN  /\ st.v = "Arc" => res'[t] = Some(st.tg)
                      /\ st.v = "Weak" =>
                            res'[t] = IF strong[st.tg] > 0 THEN Some(st.tg) ELSE None
      ]_vars

\* replace() has put an Arc of another target into a cell that held the
\* last strong handle of its target.
Wit_C11 ==
    \E t \in Threads :
        /\ pc[t] = "unlock" /\ op[t].name = "replace"
        /\ op[t].arg.v = "Arc" /\ old[t].v = "Arc"
        /\ op[t].arg.tg # old[t].tg
        /\ cell[op[t].c] = op[t].arg
        /\ strong[old[t].tg] = 0

\* C12: retained() returns true iff the cell is Arc and changes nothing;
\* the cell is Arc after new(), from(Arc), replace(Arc) and a retain() that
\* returns Some, and is not Arc after default(), from(Weak), replace(Weak),
\* release() and remove().
Thm_C12 ==
    [][/\ \A t \in Threads :
            /\ Took(t, "body", "retained")
                 => res'[t] = Bool(cell[op[t].c].v = "Arc")
            /\ (op[t].name = "retained" /\ pc'[t] # pc[t])
                 => /\ cell' = cell
                    /\ strong' = strong
                    /\ ext' = ext
            /\ (pc'[t] = "unlock" /\ op'[t].name = "replace")
                 => (cell'[op'[t].c].v = "Arc") = (op'[t].arg.v = "Arc")
            /\ (pc'[t] = "unlock" /\ op'[t].name = "retain" /\ res'[t].ok)
                 => cell'[op'[t].c].v = "Arc"
            /\ (pc'[t] = "unlock" /\ op'[t].name \in {"release", "remove"})
                 => cell'[op'[t].c].v # "Arc"
       /\ \A c \in Cells :
            /\ \A g \in Targets :
                  /\ (new(c, g) \/ from_arc(c, g)) => cell'[c].v = "Arc"
                  /\ from_weak(c, g) => cell'[c].v = "Weak"
            /\ default(c) => cell'[c].v = "Empty"
      ]_vars

\* retained() has returned false on a Weak cell whose target is alive.
Wit_C12 ==
    \E t \in Threads :
        /\ pc[t] = "unlock" /\ op[t].name = "retained"
        /\ res[t] = Bool(FALSE)
        /\ cell[op[t].c].v = "Weak"
        /\ strong[cell[op[t].c].tg] > 0

\* The cells thread t's operation may write: the one it was called on, and
\* for clone() the new cell it constructs.
Own(t) == {op[t].c, op[t].dst}

\* C13: of two cells on one shard, a step of an operation on the one leaves
\* the other as it is; threads operating on the two are never inside their
\* critical sections together; the one that waits can take the lock, or the
\* one that holds it can take its next step and waits for nothing; and each
\* cell is what the operations on it alone, run in one piece, leave.
Thm_C13 ==
    [][/\ \A t \in Threads :
            (pc[t] \in Crit /\ pc'[t] # pc[t]) =>
               \A b \in Cells \ Own(t) :
                  /\ cell'[b] = cell[b]
                  /\ acell'[b] = acell[b]
       /\ \A t, u \in Threads :
            (t # u /\ op[t].c # op[u].c /\ pc[t] # "idle" /\ pc[u] # "idle"
                   /\ ShardOf(op[t].c) = ShardOf(op[u].c)) =>
               /\ ~(pc[t] \in Crit /\ pc[u] \in Crit)
               /\ (pc[t] = "lock" /\ pc[u] \in Crit) =>
                     /\ pool[ShardOf(op[t].c)] = u
                     /\ ENABLED Run(u)
               /\ (pc[t] = "lock" /\ pc[u] = "lock") =>
                     \/ ENABLED lock(t) /\ ENABLED lock(u)
                     \/ \E w \in Threads \ {t, u} :
                           /\ pool[ShardOf(op[t].c)] = w
                           /\ pc[w] \in Crit /\ ENABLED Run(w)
       /\ \A c \in Cells :
            (~\E t \in Threads : op'[t].c = c /\ pc'[t] \in {"store", "cache"})
               => cell'[c] = acell'[c]
      ]_vars

\* remove() has emptied one cell and dropped its handle while a thread waits
\* for the lock to operate on another cell of the shard, which is still Arc.
Wit_C13 ==
    \E t, u \in Threads :
        /\ pc[t] = "unlock" /\ op[t].name = "remove" /\ old[t].v = "Arc"
        /\ pc[u] = "lock" /\ op[u].c # op[t].c
        /\ ShardOf(op[u].c) = ShardOf(op[t].c)
        /\ cell[op[t].c] = Empty
        /\ cell[op[u].c].v = "Arc"

\* C14: clone() puts the ArcState of its cell into a new cell and leaves
\* its own cell as it is; the strong count of the target goes up by one for
\* an Arc and stays for a Weak and for Empty.  Afterwards an operation on
\* the one cell leaves the other as it is: release(), remove() and
\* replace() of the one leave the other Arc and its target alive.
Thm_C14 ==
    [][\A t \in Threads :
          /\ Took(t, "body", "clone") =>
                LET st == cell[op[t].c]
                IN  /\ cell[op[t].dst] = NoCell
                    /\ cell'[op[t].dst] = st
                    /\ cell'[op[t].c] = st
                    /\ strong' = IF st.v = "Arc"
                                 THEN [strong EXCEPT ![st.tg] = @ + 1]
                                 ELSE strong
                    /\ st.v = "Arc" => strong'[st.tg] >= 2
          /\ (op[t].name = "clone" /\ pc[t] = "unlock") =>
                /\ cell[op[t].dst] = cell[op[t].c]
                /\ cell'[op[t].dst] = cell[op[t].dst]
                /\ cell'[op[t].c] = cell[op[t].c]
          /\ (op[t].name \in {"retain", "release", "remove", "replace"}
                  /\ pc[t] \in Crit /\ pc'[t] # pc[t]) =>
                \A b \in Cells \ {op[t].c} :
                   /\ cell'[b] = cell[b]
                   /\ cell[b].v = "Arc" => strong'[cell[b].tg] >= 1
      ]_vars

\* clone() has made a second Arc cell of a target no caller holds.
Wit_C14 ==
    \E t \in Threads :
        /\ pc[t] = "unlock" /\ op[t].name = "clone"
        /\ cell[op[t].c].v = "Arc"
        /\ cell[op[t].dst] = cell[op[t].c]
        /\ ext[cell[op[t].c].tg] = 0
        /\ strong[cell[op[t].c].tg] = 2

\* C15: refcount() returns the strong count of the target at the instant it
\* reads it, for an Arc cell, where it is at least one, and for a Weak cell,
\* where it is zero once the target is destroyed, and zero on an Empty
\* cell; no step of refcount() changes a cell, a strong count or a caller's
\* handle.
Thm_C15 ==
    [][\A t \in Threads :
          /\ Took(t, "body", "refcount") =>
                LET st == cell[op[t].c]
                IN  /\ st.v = "Arc" =>
                          /\ res'[t] = Count(strong[st.tg])
                          /\ res'[t].val >= 1
                    /\ st.v = "Weak" =>
                          /\ res'[t] = Count(strong[st.tg])
                          /\ res'[t].val = strong'[st.tg]
                    /\ st.v = "Empty" => res'[t] = Count(0)
          /\ (op[t].name = "refcount" /\ pc'[t] # pc[t]) =>
                /\ cell' = cell
                /\ strong' = strong
                /\ ext' = ext
      ]_vars

\* refcount() has returned one on a Weak cell whose target a caller holds.
Wit_C15 ==
    \E t \in Threads :
        /\ pc[t] = "unlock" /\ op[t].name = "refcount"
        /\ cell[op[t].c].v = "Weak"
        /\ res[t] = Count(1)
        /\ strong[cell[op[t].c].tg] = 1
        /\ ext[cell[op[t].c].tg] = 1

\* The threads inside the critical section of shard s
Inside(s) == {t \in Threads : pc[t] \in Crit /\ ShardOf(op[t].c) = s}

\* C16: at most one thread is inside the critical section of a shard, and
\* it is the one that holds the mutex of the shard; every operation leaves
\* its critical section through the drop of its guard, also retain() that
\* returns None on a Weak cell with a destroyed target and on an Empty cell
\* and release() of an Empty cell; a thread that has returned holds no
\* lock, and a lock is held only by a thread inside its critical section.
Thm_C16 ==
    [][/\ \A s \in Shards :
            /\ Cardinality(Inside(s)) <= 1
            /\ Inside(s) = IF pool[s] = 0 THEN {} ELSE {pool[s]}
       /\ \A t \in Threads :
            /\ pc[t] \in {"idle", "lock"} => Held(t) = {}
            /\ (pc[t] \in Crit /\ pc'[t] \notin Crit) =>
                  /\ pc[t] = "unlock" /\ pc'[t] = "idle"
                  /\ pool[ShardOf(op[t].c)] = t
                  /\ pool'[ShardOf(op[t].c)] = 0
                  /\ \A s \in Shards : pool'[s] # t
            /\ (Took(t, "body", "retain") /\ DeadAt(cell[op[t].c], strong)) =>
                  /\ res'[t] = None
                  /\ pc'[t] = "unlock"
            /\ (Took(t, "body", "release") /\ cell[op[t].c] = Empty) =>
                  /\ pc'[t] = "unlock"
                  /\ cell' = cell
            /\ pc[t] \in Crit => ENABLED Run(t)
      ]_vars

\* retain() is about to return None on an Empty cell while another thread
\* waits for the lock of the shard.
Wit_C16 ==
    \E t, u \in Threads :
        /\ pc[t] = "unlock" /\ op[t].name = "retain" /\ res[t] = None
        /\ cell[op[t].c] = Empty
        /\ pc[u] = "lock"
        /\ ShardOf(op[u].c) = ShardOf(op[t].c)
        /\ pool[ShardOf(op[t].c)] = t

\* release() run in one piece on ArcState st with the strong counters s
Released(st, s) == IF has_weak(st) THEN released(st, is_live(s[st.tg])) ELSE st

\* C17: release() of a Weak cell leaves it Weak on its target if the target
\* is alive at the check and Empty if it is destroyed, and leaves an Empty
\* cell Empty; a release() of the cell it leaves, the strong count being the
\* same, leaves that cell again; and release() of a Weak or Empty cell
\* changes no strong count.
Thm_C17 ==
    [][/\ \A t \in Threads :
            /\ (Took(t, "body", "release") /\ cell[op[t].c].v = "Weak") =>
                  /\ pc'[t] = "store"
                  /\ chk'[t] = IF strong[cell[op[t].c].tg] > 0
                               THEN "live" ELSE "dead"
                  /\ cell' = cell
            /\ (Took(t, "store", "release") /\ cell[op[t].c].v = "Weak") =>
                  /\ cell'[op[t].c] = IF chk[t] = "live"
                                      THEN cell[op[t].c] ELSE Empty
                  /\ (chk[t] = "live") = (strong[cell[op[t].c].tg] > 0)
                        => cell'[op[t].c] = Released(cell[op[t].c], strong)
            /\ (Took(t, "body", "release") /\ cell[op[t].c] = Empty) =>
                  /\ pc'[t] = "unlock"
                  /\ cell'[op[t].c] = Empty
            /\ (op[t].name = "release" /\ pc[t] \in {"drop", "unlock"}
                    /\ old[t].v # "Arc") =>
                  /\ cell[op[t].c] \in {old[t], Empty}
                  /\ (old[t].v = "Weak" /\ strong[old[t].tg] > 0)
                        => cell[op[t].c] = old[t]
                  /\ (old[t].v = "Weak" /\ cell[op[t].c] = Empty)
                        => strong[old[t].tg] = 0
            /\ (op[t].name = "release" /\ pc[t] \in Crit /\ pc'[t] # pc[t]
                    /\ (IF pc[t] \in {"body", "store"}
                        THEN cell[op[t].c].v # "Arc" ELSE old[t].v # "Arc")) =>
                  strong' = strong
       /\ \A c \in Cells :
            cell[c].v \in {"Weak", "Empty"} =>
               /\ Released(cell[c], strong).v \in {"Weak", "Empty"}
               /\ Released(Released(cell[c], strong), strong)
                     = Released(cell[c], strong)
      ]_vars

\* release() has emptied a Weak cell whose target is destroyed.
Wit_C17 ==
    \E t \in Threads :
        /\ pc[t] = "unlock" /\ op[t].name = "release"
        /\ old[t].v = "Weak" /\ strong[old[t].tg] = 0
        /\ cell[op[t].c] = Empty

InCells(g) == {c \in Cells : cell[c] = MkArc(g)}

\* The strong handles of g in the hands of a running operation: the Arc
\* retain() or request() is about to return, the Arc mem::replace moved out
\* of the cell and the Arc passed to replace() that is not yet in the cell.
Returning(g) ==
    {t \in Threads : /\ op[t].name \in {"retain", "request"}
                     /\ pc[t] \in {"cache", "drop", "unlock"}
                     /\ res[t] = Some(g)}

MovedOut(g) == {t \in Threads : pc[t] = "drop" /\ old[t] = MkArc(g)}

PassedIn(g) ==
    {t \in Threads : /\ op[t].name = "replace"
                     /\ pc[t] \in {"lock", "body"}
                     /\ op[t].arg = MkArc(g)}

Holders(g) ==
    Cardinality(InCells(g)) + ext[g] + Cardinality(Returning(g))
        + Cardinality(MovedOut(g)) + Cardinality(PassedIn(g))

\* The strong counters with d added to the one of g
Plus(s, g, d) == [s EXCEPT ![g] = @ + d]

\* C19: the strong count of every target is the number of cells that are
\* Arc on it plus the strong handles outside the cells, those of the callers
\* and those an operation was passed, has moved out of its cell or is about
\* to return, and the target is alive iff that number is above zero.  An
\* operation changes the count by the handles it makes and gives up:
\* retain() of a Weak cell that succeeds by two, one at the upgrade and one
\* at the cache, retain() of an Arc cell and request() that succeeds by one,
\* release(), remove() and replace() of an Arc cell by minus one for the
\* old target, clone() of an Arc cell by one, the drop of an Arc cell by
\* minus one, and by nothing else.
Thm_C19 ==
    [][/\ \A g \in Targets :
            /\ strong[g] = Holders(g)
            /\ CanUpgrade(strong, g) = (Holders(g) > 0)
       /\ \A t \in Threads :
            /\ Took(t, "body", "retain") =>
                  LET st == cell[op[t].c]
                  IN  strong' = IF st.v = "Arc" \/ pc'[t] = "cache"
                                THEN Plus(strong, st.tg, 1) ELSE strong
            /\ Took(t, "cache", "retain") =>
                  /\ strong' = Plus(strong, res[t].val, 1)
                  /\ old'[t].v = "Weak"
            /\ Took(t, "body", "request") =>
                  strong' = IF res'[t].ok
                            THEN Plus(strong, cell[op[t].c].tg, 1) ELSE strong
            /\ (op[t].name \in {"release", "remove", "replace"}
                    /\ pc[t] \in {"body", "store"} /\ pc'[t] # pc[t]) =>
                  strong' = strong
            /\ (pc[t] = "drop" /\ pc'[t] # "drop") =>
                  strong' = IF old[t].v = "Arc"
                            THEN Plus(strong, old[t].tg, -1) ELSE strong
            /\ Took(t, "body", "clone") =>
                  strong' = IF cell[op[t].c].v = "Arc"
                            THEN Plus(strong, cell[op[t].c].tg, 1) ELSE strong
            /\ (pc[t] = "body" /\ pc'[t] # "body"
                    /\ op[t].name \in {"retained", "refcount"}) =>
                  strong' = strong
            /\ (pc[t] \in {"idle", "lock"} /\ pc'[t] # pc[t]) =>
                  strong' = strong
       /\ \A c \in Cells :
            drop_cell(c) =>
               strong' = IF cell[c].v = "Arc"
                         THEN Plus(strong, cell[c].tg, -1) ELSE strong
      ]_vars

\* retain() has upgraded and cached the Weak of one cell, another cell and
\* a caller holding the target: two cells, the caller and the Arc about to
\* be returned make four.
Wit_C19 ==
    \E t \in Threads :
        /\ pc[t] = "unlock" /\ op[t].name = "retain"
        /\ old[t].v = "Weak" /\ res[t] = Some(old[t].tg)
        /\ Cardinality(InCells(old[t].tg)) = 2
        /\ ext[old[t].tg] = 1
        /\ strong[old[t].tg] = 4

\* The operations that give up what their cell held
Discarding == {"release", "remove", "replace"}

\* C20: release(), remove() and replace() drop the handle they moved out of
\* the cell while they hold the lock of its shard: the handle is still
\* counted when it is moved out, the drop takes one off the strong count,
\* which destroys the target if it was the last, and leaves the lock with
\* the thread; the lock is released by the step after it only, which
\* changes no strong count.
Thm_C20 ==
    [][\A t \in Threads :
          op[t].name \in Discarding =>
             LET s == ShardOf(op[t].c)
             IN  /\ (pc[t] \in {"body", "store"} /\ pc'[t] = "drop") =>
                       /\ old'[t] = cell[op[t].c]
                       /\ strong' = strong
                       /\ pool[s] = t /\ pool'[s] = t
                       /\ old'[t].v = "Arc" => strong'[old'[t].tg] >= 1
                 /\ (pc[t] \in {"body", "store"} /\ pc'[t] # pc[t]
                         /\ cell'[op[t].c] # cell[op[t].c]) =>
                       pc'[t] = "drop"
                 /\ pc[t] = "drop" =>
                       /\ pool[s] = t
                       /\ old[t].v = "Arc" => strong[old[t].tg] >= 1
                 /\ Took(t, "drop", op[t].name) =>
                       /\ pc'[t] = "unlock"
                       /\ pool'[s] = t
                       /\ strong' = IF old[t].v = "Arc"
                                    THEN Plus(strong, old[t].tg, -1)
                                    ELSE strong
                       /\ cell' = cell
                 /\ (pc[t] \in Crit /\ pool'[s] # t) =>
                       /\ pc[t] = "unlock" /\ pc'[t] = "idle"
                       /\ pool[s] = t
                       /\ strong' = strong
                       /\ old[t].v = "Arc" =>
                             /\ t \notin MovedOut(old[t].tg)
                             /\ strong[old[t].tg] = Holders(old[t].tg)
      ]_vars

\* remove() has destroyed the target by dropping the handle of its cell
\* and still holds the lock another thread waits for.
Wit_C20 ==
    \E t, u \in Threads :
        /\ pc[t] = "unlock" /\ op[t].name = "remove"
        /\ old[t].v = "Arc" /\ strong[old[t].tg] = 0
        /\ pool[ShardOf(op[t].c)] = t
        /\ pc[u] = "lock"
        /\ ShardOf(op[u].c) = ShardOf(op[t].c)

====
